---------------------------- MODULE Spec2Model ----------------------------
(***************************************************************************)
(* Model of src/common/formatter.cpp (namespace formatter): the duration   *)
(* formatters, the coordinate validator and the date-time parse recovery   *)
(* (initTranslateableTexts / readDateTime) over the module-level list      *)
(* dateTimeFormats.                                                        *)
(*                                                                         *)
(* A QString is a sequence of one-character strings.  A fractional-hours   *)
(* value is a whole number of ticks, TicksPerHour ticks to the hour.       *)
(***************************************************************************)
EXTENDS Integers, Sequences, FiniteSets, TLC

VARIABLES
  sysLocale,        \* what QLocale::system() returns in this process
  dateTimeFormats,  \* static QStringList dateTimeFormats
  initCalls,        \* completed initTranslateableTexts calls (capped)
  op,               \* the exported operation that ran last
  arg,              \* its input
  out,              \* its return value
  message,          \* the message slot of checkCoordinates
  consulted,        \* readDateTime: catalogue indexes handed to toDateTime
  ipc,              \* interleaved run: position of the initializing thread
  itemp,            \* interleaved run: the local copy temp of line 222
  rpc,              \* interleaved run: position of each reading thread
  rstr,             \* interleaved run: each reader's simplified text
  ridx,             \* interleaved run: each reader's loop index
  rret,             \* interleaved run: each reader's retval
  rend,             \* interleaved run: each reader's end iterator (line 248)
  rview             \* interleaved run: what each reader has found the list to be

vars == <<sysLocale, dateTimeFormats, initCalls, op, arg, out, message,
          consulted, ipc, itemp, rpc, rstr, ridx, rret, rend, rview>>

seqVars == <<ipc, itemp, rpc, rstr, ridx, rret, rend, rview>>

(***************************************************************************)
(* Bounds                                                                  *)
(***************************************************************************)
MaxHours == 26
TicksPerMinute == 2
MaxInitCalls == 2
SeqHours == 1
NumReaders == 1

TicksPerHour == 60 * TicksPerMinute
MaxTicks == MaxHours * TicksPerHour

(***************************************************************************)
(* QString helpers                                                         *)
(***************************************************************************)
DigitChar == <<"0", "1", "2", "3", "4", "5", "6", "7", "8", "9">>

IsDigit(c) == \E i \in 1..10 : DigitChar[i] = c

DigitVal(c) == (CHOOSE i \in 1..10 : DigitChar[i] = c) - 1

\* QChar::isSpace for the characters that occur
IsSpace(c) == c \in {" ", "\t", "\n"}

Letters ==
  {"a", "b", "c", "d", "e", "f", "g", "h", "i", "j", "k", "l", "m", "n", "o", "p", "q", "r",
   "s", "t", "u", "v", "w", "x", "y", "z", "A", "B", "C", "D", "E", "F", "G", "H", "I", "J",
   "K", "L", "M", "N", "O", "P", "Q", "R", "S", "T", "U", "V", "W", "X", "Y", "Z"}

\* a word character of the regular expression \b
IsWordChar(c) == c \in Letters \/ c = "_" \/ IsDigit(c)

\* QString::startsWith at an offset: sub occurs in s at position i
OccursAt(s, sub, i) ==
  /\ i >= 1
  /\ i + Len(sub) - 1 <= Len(s)
  /\ \A k \in 1..Len(sub) : s[i + k - 1] = sub[k]

\* QString::contains(const QString&)
Contains(s, sub) == \E i \in 1..Len(s) : OccursAt(s, sub, i)

\* QString::endsWith
EndsWith(s, sub) == Len(s) >= Len(sub) /\ OccursAt(s, sub, Len(s) - Len(sub) + 1)

\* QString::replace(before, after): every non-overlapping occurrence, left to right
RECURSIVE ReplaceFrom(_, _, _, _)
ReplaceFrom(s, before, after, i) ==
  IF i > Len(s) THEN <<>>
  ELSE IF OccursAt(s, before, i)
       THEN after \o ReplaceFrom(s, before, after, i + Len(before))
       ELSE <<s[i]>> \o ReplaceFrom(s, before, after, i + 1)

Replace(s, before, after) == ReplaceFrom(s, before, after, 1)

\* QString::contains(QRegularExpression("\\byy\\b"))
ContainsWordYY(s) ==
  \E i \in 1..Len(s) :
    /\ OccursAt(s, <<"y", "y">>, i)
    /\ (i = 1 \/ ~IsWordChar(s[i - 1]))
    /\ (i + 1 = Len(s) \/ ~IsWordChar(s[i + 2]))

\* QString::simplified(): trim, and collapse each run of whitespace to one space
RECURSIVE Collapse(_, _, _)
Collapse(s, i, pendingSpace) ==
  IF i > Len(s) THEN <<>>
  ELSE IF IsSpace(s[i]) THEN Collapse(s, i + 1, TRUE)
       ELSE (IF pendingSpace THEN <<" ", s[i]>> ELSE <<s[i]>>) \o Collapse(s, i + 1, FALSE)

RECURSIVE SkipSpace(_, _)
SkipSpace(s, i) == IF i <= Len(s) /\ IsSpace(s[i]) THEN SkipSpace(s, i + 1) ELSE i

simplified(s) == Collapse(s, SkipSpace(s, 1), FALSE)

(***************************************************************************)
(* yearVariant                                                             *)
(***************************************************************************)
yearVariant(dateTimeFormat) ==
  IF Contains(dateTimeFormat, <<"y", "y", "y", "y">>)
  THEN Replace(dateTimeFormat, <<"y", "y", "y", "y">>, <<"y", "y">>)
  ELSE IF ContainsWordYY(dateTimeFormat)
       THEN Replace(dateTimeFormat, <<"y", "y">>, <<"y", "y", "y", "y">>)
       ELSE dateTimeFormat

(***************************************************************************)
(* The locale service (Qt): QLocale::dateTimeFormat, QDateTime::toString   *)
(* and QLocale::toDateTime.  Patterns are written with the numeric tokens  *)
(* d dd M MM yy yyyy H HH m mm s ss and the zone token t; weekday names,   *)
(* month names and the AM/PM marker are left out.  The zone abbreviation   *)
(* that t renders and reads is the single character Z.                     *)
(***************************************************************************)
Locales == {"en", "en_AU", "de", "C"}

English == "en"

\* M/d/yy H:mm
EnShort == <<"M", "/", "d", "/", "y", "y", " ", "H", ":", "m", "m">>

\* d M yyyy H:mm:ss t
EnLong == <<"d", " ", "M", " ", "y", "y", "y", "y", " ", "H", ":", "m", "m", ":", "s", "s", " ", "t">>

\* d/M/yy H:mm
AuShort == <<"d", "/", "M", "/", "y", "y", " ", "H", ":", "m", "m">>

\* d M yyyy H:mm:ss t
AuLong == <<"d", " ", "M", " ", "y", "y", "y", "y", " ", "H", ":", "m", "m", ":", "s", "s", " ", "t">>

\* dd.MM.yy HH:mm
DeShort == <<"d", "d", ".", "M", "M", ".", "y", "y", " ", "H", "H", ":", "m", "m">>

\* d. M yyyy HH:mm:ss t
DeLong == <<"d", ".", " ", "M", " ", "y", "y", "y", "y", " ", "H", "H", ":", "m", "m", ":", "s", "s", " ", "t">>

\* d M yyyy HH:mm:ss
CShort == <<"d", " ", "M", " ", "y", "y", "y", "y", " ", "H", "H", ":", "m", "m", ":", "s", "s">>

\* d, M yyyy HH:mm:ss
CLong == <<"d", ",", " ", "M", " ", "y", "y", "y", "y", " ", "H", "H", ":", "m", "m", ":", "s", "s">>

\* QLocale::dateTimeFormat(width); the narrow pattern is the short one
dateTimeFormat(locale, width) ==
  CASE locale = "en"    -> (IF width = "LongFormat" THEN EnLong ELSE EnShort)
    [] locale = "en_AU" -> (IF width = "LongFormat" THEN AuLong ELSE AuShort)
    [] locale = "de"    -> (IF width = "LongFormat" THEN DeLong ELSE DeShort)
    [] locale = "C"     -> (IF width = "LongFormat" THEN CLong ELSE CShort)

\* a default-constructed QDateTime: isValid() is false
InvalidDateTime ==
  [valid |-> FALSE, year |-> 0, month |-> 0, day |-> 0, hour |-> 0, minute |-> 0, second |-> 0]

\* the fields a parse starts from: 1 January 1900, 00:00:00
DefaultFields ==
  [valid |-> TRUE, year |-> 1900, month |-> 1, day |-> 1, hour |-> 0, minute |-> 0, second |-> 0]

\* length of the run of the character fmt[i] that starts at i, at most max
RECURSIVE countRepeat(_, _, _)
countRepeat(fmt, i, max) ==
  IF max > 1 /\ i + 1 <= Len(fmt) /\ fmt[i + 1] = fmt[i]
  THEN 1 + countRepeat(fmt, i + 1, max - 1)
  ELSE 1

\* the decimal digits of n, zero-padded to at least width characters
RECURSIVE Digits(_, _)
Digits(n, width) ==
  IF n < 10 /\ width <= 1 THEN <<DigitChar[n + 1]>>
  ELSE Digits(n \div 10, width - 1) \o <<DigitChar[(n % 10) + 1]>>

\* the token that starts at fmt[i]: its field, its pattern length, its text width
\* (0: one or two digits), or a literal character
TokenAt(fmt, i) ==
  LET c == fmt[i]
      n == countRepeat(fmt, i, 4)
  IN  CASE c = "y" /\ n = 4 -> [field |-> "year", len |-> 4, width |-> 4]
        [] c = "y" /\ n \in {2, 3} -> [field |-> "year", len |-> 2, width |-> 2]
        [] c = "d" /\ n <= 2 -> [field |-> "day", len |-> n, width |-> IF n = 2 THEN 2 ELSE 0]
        [] c = "M" /\ n <= 2 -> [field |-> "month", len |-> n, width |-> IF n = 2 THEN 2 ELSE 0]
        [] c = "H" -> [field |-> "hour", len |-> IF n >= 2 THEN 2 ELSE 1, width |-> IF n >= 2 THEN 2 ELSE 0]
        [] c = "m" -> [field |-> "minute", len |-> IF n >= 2 THEN 2 ELSE 1, width |-> IF n >= 2 THEN 2 ELSE 0]
        [] c = "s" -> [field |-> "second", len |-> IF n >= 2 THEN 2 ELSE 1, width |-> IF n >= 2 THEN 2 ELSE 0]
        [] c = "t" -> [field |-> "zone", len |-> n, width |-> 1]
        [] OTHER -> [field |-> "literal", len |-> 1, width |-> 1]

FieldOf(dt, field) ==
  CASE field = "year" -> dt.year
    [] field = "month" -> dt.month
    [] field = "day" -> dt.day
    [] field = "hour" -> dt.hour
    [] field = "minute" -> dt.minute
    [] field = "second" -> dt.second

WithField(dt, field, v) ==
  CASE field = "year" -> [dt EXCEPT !.year = v]
    [] field = "month" -> [dt EXCEPT !.month = v]
    [] field = "day" -> [dt EXCEPT !.day = v]
    [] field = "hour" -> [dt EXCEPT !.hour = v]
    [] field = "minute" -> [dt EXCEPT !.minute = v]
    [] field = "second" -> [dt EXCEPT !.second = v]

\* QDateTime::toString(format) of an instant held in UTC
RECURSIVE toStringFrom(_, _, _)
toStringFrom(dt, fmt, i) ==
  IF i > Len(fmt) THEN <<>>
  ELSE LET tok == TokenAt(fmt, i)
           txt == CASE tok.field = "literal" -> <<fmt[i]>>
                    [] tok.field = "zone" -> <<"Z">>
                    [] tok.field = "year" /\ tok.width = 2 -> Digits(dt.year % 100, 2)
                    [] OTHER -> Digits(FieldOf(dt, tok.field), tok.width)
       IN  txt \o toStringFrom(dt, fmt, i + tok.len)

toString(dt, fmt) == toStringFrom(dt, fmt, 1)

\* the number read from the digits str[j .. j+n-1]
RECURSIVE NumberAt(_, _, _)
NumberAt(str, j, n) ==
  IF n = 0 THEN 0 ELSE NumberAt(str, j, n - 1) * 10 + DigitVal(str[j + n - 1])

DigitsAt(str, j, n) == j + n - 1 <= Len(str) /\ \A k \in j..(j + n - 1) : IsDigit(str[k])

InRange(dt) ==
  /\ dt.month \in 1..12
  /\ dt.day \in 1..31
  /\ dt.hour \in 0..23
  /\ dt.minute \in 0..59
  /\ dt.second \in 0..59

\* the parse of str from position j under fmt from position i
RECURSIVE Scan(_, _, _, _, _)
Scan(fmt, i, str, j, acc) ==
  IF i > Len(fmt)
  THEN (IF j > Len(str) /\ InRange(acc) THEN acc ELSE InvalidDateTime)
  ELSE LET tok == TokenAt(fmt, i)
           n == IF tok.width > 0 THEN tok.width
                ELSE IF DigitsAt(str, j, 2) THEN 2 ELSE 1
       IN  CASE tok.field = "literal" ->
                  (IF j <= Len(str) /\ str[j] = fmt[i]
                   THEN Scan(fmt, i + 1, str, j + 1, acc) ELSE InvalidDateTime)
             [] tok.field = "zone" ->
                  (IF j <= Len(str) /\ str[j] = "Z"
                   THEN Scan(fmt, i + tok.len, str, j + 1, acc) ELSE InvalidDateTime)
             [] OTHER ->
                  (IF DigitsAt(str, j, n)
                   THEN Scan(fmt, i + tok.len, str, j + n,
                             WithField(acc, tok.field,
                                       IF tok.field = "year" /\ tok.width = 2
                                       THEN 1900 + NumberAt(str, j, n)
                                       ELSE NumberAt(str, j, n)))
                   ELSE InvalidDateTime)

\* QLocale::toDateTime(str, format)
toDateTime(str, format) == Scan(format, 1, str, 1, DefaultFields)

(***************************************************************************)
(* initTranslateableTexts                                                  *)
(***************************************************************************)
\* variant of BaseFormats: the English block appended before the system block
BaseFormatsEnglishFirst(locale) ==
  << dateTimeFormat(English, "ShortFormat"),
     dateTimeFormat(English, "LongFormat"),
     dateTimeFormat(English, "NarrowFormat"),
     yearVariant(dateTimeFormat(English, "ShortFormat")),
     yearVariant(dateTimeFormat(English, "LongFormat")),
     yearVariant(dateTimeFormat(English, "NarrowFormat")),
     dateTimeFormat(locale, "ShortFormat"),
     dateTimeFormat(locale, "LongFormat"),
     dateTimeFormat(locale, "NarrowFormat"),
     yearVariant(dateTimeFormat(locale, "ShortFormat")),
     yearVariant(dateTimeFormat(locale, "LongFormat")),
     yearVariant(dateTimeFormat(locale, "NarrowFormat")) >>

\* lines 201-219: the twelve entries appended before the zone-suffix step
BaseFormats(locale) ==
  << dateTimeFormat(locale, "ShortFormat"),
     dateTimeFormat(locale, "LongFormat"),
     dateTimeFormat(locale, "NarrowFormat"),
     yearVariant(dateTimeFormat(locale, "ShortFormat")),
     yearVariant(dateTimeFormat(locale, "LongFormat")),
     yearVariant(dateTimeFormat(locale, "NarrowFormat")),
     dateTimeFormat(English, "ShortFormat"),
     dateTimeFormat(English, "LongFormat"),
     dateTimeFormat(English, "NarrowFormat"),
     yearVariant(dateTimeFormat(English, "ShortFormat")),
     yearVariant(dateTimeFormat(English, "LongFormat")),
     yearVariant(dateTimeFormat(English, "NarrowFormat")) >>

\* line 225: !t.endsWith("t")
NeedsZone(t) == ~EndsWith(t, <<"t">>)

\* variant of ZoneVariants: the two appends of lines 227 and 228 exchanged
RECURSIVE ZoneVariantsFlushFirst(_, _)
ZoneVariantsFlushFirst(temp, i) ==
  IF i > Len(temp) THEN <<>>
  ELSE (IF NeedsZone(temp[i])
        THEN <<temp[i] \o <<"t">>, temp[i] \o <<" ", "t">>>>
        ELSE <<>>) \o ZoneVariantsFlushFirst(temp, i + 1)

\* lines 223-230: what the loop over temp appends from temp[i] on
RECURSIVE ZoneVariants(_, _)
ZoneVariants(temp, i) ==
  IF i > Len(temp) THEN <<>>
  ELSE (IF NeedsZone(temp[i])
        THEN <<temp[i] \o <<" ", "t">>, temp[i] \o <<"t">>>>
        ELSE <<>>) \o ZoneVariants(temp, i + 1)

\* variant of BuildCatalogue: the clear() of line 200 left out
BuildCatalogueNoClear(old, locale) ==
  LET temp == old \o BaseFormats(locale)
  IN  temp \o ZoneVariants(temp, 1)

\* lines 199-230: the list the call leaves behind, given the list it found
BuildCatalogue(old, locale) ==
  LET cleared == <<>>
      temp == cleared \o BaseFormats(locale)
  IN  temp \o ZoneVariants(temp, 1)

(***************************************************************************)
(* readDateTime                                                            *)
(***************************************************************************)
\* variant of ReadLoop: the break of line 252 left out
RECURSIVE ReadLoopNoBreak(_, _, _, _, _)
ReadLoopNoBreak(formats, str, i, retval, tried) ==
  IF i > Len(formats) THEN [ret |-> retval, consulted |-> tried]
  ELSE ReadLoopNoBreak(formats, str, i + 1, toDateTime(str, formats[i]), Append(tried, i))

\* lines 248-253: the loop from catalogue index i on
RECURSIVE ReadLoop(_, _, _, _, _)
ReadLoop(formats, str, i, retval, tried) ==
  IF i > Len(formats) THEN [ret |-> retval, consulted |-> tried]
  ELSE LET r == toDateTime(str, formats[i])
       IN  IF r.valid THEN [ret |-> r, consulted |-> Append(tried, i)]
           ELSE ReadLoop(formats, str, i + 1, r, Append(tried, i))

\* variant of readDateTime: an empty catalogue is built on first use
readDateTimeLazy(formats, str) ==
  ReadLoop(IF formats = <<>> THEN BuildCatalogue(formats, English) ELSE formats,
           simplified(str), 1, InvalidDateTime, <<>>)

\* lines 236-255
readDateTime(formats, str) == ReadLoop(formats, simplified(str), 1, InvalidDateTime, <<>>)

(***************************************************************************)
(* Duration formatters.  time is a number of ticks.                        *)
(***************************************************************************)
\* static_cast<int>(time), time >= 0
IntPart(time) == time \div TicksPerHour

\* atools::roundToInt((time - floor(time)) * 60.): round half away from zero
RoundedMinutes(time) == (2 * (time % TicksPerHour) + TicksPerMinute) \div (2 * TicksPerMinute)

\* QLocale().toString(n), n below the first group separator
LocaleNumber(n) == Digits(n, 1)

\* QString::arg(n, 2, 10, QChar('0'))
Padded(n) == Digits(n, 2)

\* lines 37-48
formatMinutesHours(time) ==
  LET hours0 == IntPart(time)
      minutes0 == RoundedMinutes(time)
      hours == IF minutes0 = 60 THEN hours0 + 1 ELSE hours0
      minutes == IF minutes0 = 60 THEN 0 ELSE minutes0
  IN  LocaleNumber(hours) \o <<":">> \o Padded(minutes)

\* lines 50-62
formatMinutesHoursLong(time) ==
  LET hours0 == IntPart(time)
      minutes0 == RoundedMinutes(time)
      hours == IF minutes0 = 60 THEN hours0 + 1 ELSE hours0
      minutes == IF minutes0 = 60 THEN 0 ELSE minutes0
  IN  LocaleNumber(hours) \o <<" ", "h", " ">> \o Padded(minutes) \o <<" ", "m">>

\* lines 64-73
formatMinutesHoursDays(time) ==
  LET days == IntPart(time) \div 24
      hours == IntPart(time) - (days * 24)
      minutes == RoundedMinutes(time)
  IN  LocaleNumber(days) \o <<":">> \o Padded(hours) \o <<":">> \o Padded(minutes)

\* lines 84-90: the hour component, given what was emitted before it
HoursPart(retval, hours) ==
  IF retval # <<>> THEN <<" ">> \o Padded(hours) \o <<" ", "h">>
  ELSE LocaleNumber(hours) \o <<" ", "h">>

\* variant of MinutesPart: the two branches of line 92 exchanged
MinutesPartSwapped(retval, minutes) ==
  IF retval = <<>> THEN <<" ">> \o Padded(minutes) \o <<" ", "m">>
  ELSE LocaleNumber(minutes) \o <<" ", "m">>

\* lines 92-95: the minute component, given what was emitted before it
MinutesPart(retval, minutes) ==
  IF retval # <<>> THEN <<" ">> \o Padded(minutes) \o <<" ", "m">>
  ELSE LocaleNumber(minutes) \o <<" ", "m">>

\* lines 75-98
formatMinutesHoursDaysLong(time) ==
  LET days == IntPart(time) \div 24
      hours == IntPart(time) - (days * 24)
      minutes == RoundedMinutes(time)
      r1 == IF days > 0 THEN LocaleNumber(days) \o <<" ", "d">> ELSE <<>>
      r2 == IF hours > 0 THEN r1 \o HoursPart(r1, hours) ELSE r1
  IN  r2 \o MinutesPart(r2, minutes)

(***************************************************************************)
(* checkCoordinates.  The coordinate parser and the unit formatter are     *)
(* given by their values on the texts tried.                               *)
(***************************************************************************)
CoordTexts ==
  {"N48 07.2 E11 34.4", "N 48 7.2' E 11 34.4'", "4807N01134E", "S 33 56.8' E 151 10.6'",
   "not coords", ""}

InvalidPos == [valid |-> FALSE, id |-> "none"]

\* atools::fs::util::fromAnyFormat
fromAnyFormat(text) ==
  CASE text \in {"N48 07.2 E11 34.4", "N 48 7.2' E 11 34.4'"} -> [valid |-> TRUE, id |-> "EDDM"]
    [] text = "4807N01134E" -> [valid |-> TRUE, id |-> "4807N"]
    [] text = "S 33 56.8' E 151 10.6'" -> [valid |-> TRUE, id |-> "YSSY"]
    [] OTHER -> InvalidPos

\* Unit::coords
UnitCoords(pos) ==
  CASE pos.id = "EDDM" -> "N 48 7.2' E 11 34.4'"
    [] pos.id = "4807N" -> "N 48 7.0' E 11 34.0'"
    [] pos.id = "YSSY" -> "S 33 56.8' E 151 10.6'"

NoMessage == [text |-> "", arg |-> "", error |-> FALSE]

\* variant of checkCoordinates: the comparison of line 169 inverted
checkCoordinatesInverted(text) ==
  LET pos == fromAnyFormat(text)
  IN  IF pos.valid
      THEN LET coords == UnitCoords(pos)
           IN  IF coords = text
               THEN [ret |-> TRUE,
                     message |-> [text |-> "Coordinates are valid: %1", arg |-> coords, error |-> FALSE]]
               ELSE [ret |-> TRUE,
                     message |-> [text |-> "Coordinates are valid.", arg |-> "", error |-> FALSE]]
      ELSE [ret |-> FALSE,
            message |-> [text |-> "Coordinates are not valid.", arg |-> "", error |-> TRUE]]

\* lines 160-180: the return value and the message slot
checkCoordinates(text) ==
  LET pos == fromAnyFormat(text)
  IN  IF pos.valid
      THEN LET coords == UnitCoords(pos)
           IN  IF coords # text
               THEN [ret |-> TRUE,
                     message |-> [text |-> "Coordinates are valid: %1", arg |-> coords, error |-> FALSE]]
               ELSE [ret |-> TRUE,
                     message |-> [text |-> "Coordinates are valid.", arg |-> "", error |-> FALSE]]
      ELSE [ret |-> FALSE,
            message |-> [text |-> "Coordinates are not valid.", arg |-> "", error |-> TRUE]]

(***************************************************************************)
(* Inputs                                                                  *)
(***************************************************************************)
\* instants after the epoch, as UTC calendar fields
Instants ==
  [valid : {TRUE}, year : {1970, 2020}, month : {1}, day : {2, 15},
   hour : {3, 15}, minute : {4}, second : {0, 5}]

Range(f) == {f[i] : i \in DOMAIN f}

\* an instant rendered under a catalogue pattern
Rendered[loc \in Locales] ==
  {toString(t, p) : t \in Instants, p \in Range(BuildCatalogue(<<>>, loc))}

\* the same with a zone abbreviation appended, with and without a space
WithZone(text) == {text \o <<" ", "Z">>, text \o <<"Z">>}

\* the same with whitespace around it and doubled inside it
Spaced(text) == <<" ", "\t">> \o Replace(text, <<" ">>, <<" ", " ">>) \o <<"\n">>

Garbage == {<<>>, <<" ">>, <<"x">>, <<"1", "/", "2">>}

Texts[loc \in Locales] ==
  Rendered[loc]
    \cup UNION {WithZone(x) : x \in Rendered[loc]}
    \cup {Spaced(x) : x \in Rendered[loc]}
    \cup Garbage

(***************************************************************************)
(* The exported operations, each run to completion.  The calls are         *)
(* synchronous: one is made when the caller has taken the result of the    *)
(* one before (op = "none").                                               *)
(***************************************************************************)
Init ==
  /\ sysLocale \in Locales
  /\ dateTimeFormats = <<>>
  /\ initCalls = 0
  /\ op = "none"
  /\ arg = <<>>
  /\ out = <<>>
  /\ message = NoMessage
  /\ consulted = <<>>
  /\ ipc = [at |-> "idle", n |-> 0]
  /\ itemp = <<>>
  /\ rpc = [r \in 1..NumReaders |-> "idle"]
  /\ rstr = [r \in 1..NumReaders |-> <<>>]
  /\ ridx = [r \in 1..NumReaders |-> 0]
  /\ rret = [r \in 1..NumReaders |-> InvalidDateTime]
  /\ rend = [r \in 1..NumReaders |-> 0]
  /\ rview = [r \in 1..NumReaders |-> "none"]

initTranslateableTexts ==
  /\ op = "none"
  /\ initCalls < MaxInitCalls
  /\ dateTimeFormats' = BuildCatalogue(dateTimeFormats, sysLocale)
  /\ initCalls' = initCalls + 1
  /\ op' = "initTranslateableTexts"
  /\ arg' = <<>>
  /\ out' = <<>>
  /\ consulted' = <<>>
  /\ UNCHANGED <<sysLocale, message>>
  /\ UNCHANGED seqVars

ReadDateTime ==
  /\ op = "none"
  /\ \E str \in Texts[sysLocale] :
    LET res == readDateTime(dateTimeFormats, str)
    IN  /\ op' = "readDateTime"
        /\ arg' = str
        /\ out' = res.ret
        /\ consulted' = res.consulted
        /\ UNCHANGED <<sysLocale, dateTimeFormats, initCalls, message>>
        /\ UNCHANGED seqVars

Formatted(name, time) ==
  CASE name = "formatMinutesHours" -> formatMinutesHours(time)
    [] name = "formatMinutesHoursLong" -> formatMinutesHoursLong(time)
    [] name = "formatMinutesHoursDays" -> formatMinutesHoursDays(time)
    [] name = "formatMinutesHoursDaysLong" -> formatMinutesHoursDaysLong(time)

DurationFormatters ==
  {"formatMinutesHours", "formatMinutesHoursLong", "formatMinutesHoursDays",
   "formatMinutesHoursDaysLong"}

\* one of the four duration formatters, on a value of up to SeqHours hours
FormatDuration ==
  /\ op = "none"
  /\ \E name \in DurationFormatters, time \in 0..(SeqHours * TicksPerHour) :
    /\ op' = name
    /\ arg' = time
    /\ out' = Formatted(name, time)
    /\ consulted' = <<>>
    /\ UNCHANGED <<sysLocale, dateTimeFormats, initCalls, message>>
    /\ UNCHANGED seqVars

CheckCoordinates ==
  /\ op = "none"
  /\ \E text \in CoordTexts :
    LET res == checkCoordinates(text)
    IN  /\ op' = "checkCoordinates"
        /\ arg' = text
        /\ out' = res.ret
        /\ message' = res.message
        /\ consulted' = <<>>
        /\ UNCHANGED <<sysLocale, dateTimeFormats, initCalls>>
        /\ UNCHANGED seqVars

\* the caller takes the result; the catalogue stays as the call left it
Return ==
  /\ op # "none"
  /\ op' = "none"
  /\ arg' = <<>>
  /\ out' = <<>>
  /\ message' = NoMessage
  /\ consulted' = <<>>
  /\ UNCHANGED <<sysLocale, dateTimeFormats, initCalls>>
  /\ UNCHANGED seqVars

Next ==
  \/ initTranslateableTexts
  \/ ReadDateTime
  \/ FormatDuration
  \/ CheckCoordinates
  \/ Return

Spec == Init /\ [][Next]_vars

(***************************************************************************)
(* The duration formatters as pure functions: the hours value is drawn at  *)
(* the start, and one formatter is applied to it.                          *)
(***************************************************************************)
InitFormat ==
  /\ sysLocale = English
  /\ dateTimeFormats = <<>>
  /\ initCalls = 0
  /\ op = "none"
  /\ arg \in 0..MaxTicks
  /\ out = <<>>
  /\ message = NoMessage
  /\ consulted = <<>>
  /\ ipc = [at |-> "idle", n |-> 0]
  /\ itemp = <<>>
  /\ rpc = [r \in 1..NumReaders |-> "idle"]
  /\ rstr = [r \in 1..NumReaders |-> <<>>]
  /\ ridx = [r \in 1..NumReaders |-> 0]
  /\ rret = [r \in 1..NumReaders |-> InvalidDateTime]
  /\ rend = [r \in 1..NumReaders |-> 0]
  /\ rview = [r \in 1..NumReaders |-> "none"]

ApplyFormat ==
  /\ op = "none"
  /\ \E name \in DurationFormatters :
       /\ op' = name
       /\ out' = Formatted(name, arg)
  /\ UNCHANGED <<sysLocale, dateTimeFormats, initCalls, arg, message, consulted>>
  /\ UNCHANGED seqVars

SpecFormat == InitFormat /\ [][ApplyFormat]_vars

(***************************************************************************)
(* The same operations with one thread in initTranslateableTexts and       *)
(* NumReaders threads in readDateTime, one statement of the source to a    *)
(* step.  dateTimeFormats is a plain static: no lock or atomic orders the  *)
(* steps of different threads.  A reader whose element was taken away      *)
(* under it reads freed memory: it may crash or go on with an unreadable   *)
(* pattern.                                                                *)
(***************************************************************************)
Readers == 1..NumReaders

ConcInstant ==
  [valid |-> TRUE, year |-> 2020, month |-> 1, day |-> 15, hour |-> 15, minute |-> 4, second |-> 5]

ConcTexts ==
  {toString(ConcInstant, EnShort), toString(ConcInstant, EnShort) \o <<"Z">>, <<"x">>}

ConcLocales == {"en", "C"}

Idle == [at |-> "idle", n |-> 0]

\* what a reader that has found `seen` so far has found once it also finds the
\* list as it is now: "whole" while every list it found was the catalogue as it
\* was before the first call started (empty) or a completely built one, "torn"
\* from the first list that was neither
Observe(seen) ==
  IF seen = "torn" THEN "torn"
  ELSE IF dateTimeFormats = BuildCatalogue(<<>>, sysLocale)
          \/ (initCalls = 0 /\ dateTimeFormats = <<>>)
       THEN "whole"
       ELSE "torn"

\* lines 199-200: QLocale::system(), dateTimeFormats.clear()
InitClear ==
  /\ ipc.at = "idle"
  /\ initCalls < MaxInitCalls
  /\ dateTimeFormats' = <<>>
  /\ ipc' = [at |-> "append", n |-> 1]
  /\ UNCHANGED <<sysLocale, initCalls, op, arg, out, message, consulted, itemp,
                 rpc, rstr, ridx, rret, rend, rview>>

\* lines 201-219, one append each; after the twelfth, line 222 copies the list
InitAppend ==
  /\ ipc.at = "append"
  /\ dateTimeFormats' = Append(dateTimeFormats, BaseFormats(sysLocale)[ipc.n])
  /\ IF ipc.n = Len(BaseFormats(sysLocale))
     THEN ipc' = [at |-> "zone", n |-> 1] /\ itemp' = dateTimeFormats'
     ELSE ipc' = [at |-> "append", n |-> ipc.n + 1] /\ UNCHANGED itemp
  /\ UNCHANGED <<sysLocale, initCalls, op, arg, out, message, consulted,
                 rpc, rstr, ridx, rret, rend, rview>>

\* the loop of line 223 moves on from temp[n], or the call returns
InitAdvance(n) ==
  IF n = Len(itemp)
  THEN ipc' = Idle /\ initCalls' = initCalls + 1
  ELSE ipc' = [at |-> "zone", n |-> n + 1] /\ UNCHANGED initCalls

\* lines 225-227: the test, and the append of t + " t"
InitZoneSpaced ==
  /\ ipc.at = "zone"
  /\ IF NeedsZone(itemp[ipc.n])
     THEN /\ dateTimeFormats' = Append(dateTimeFormats, itemp[ipc.n] \o <<" ", "t">>)
          /\ ipc' = [at |-> "zone2", n |-> ipc.n]
          /\ UNCHANGED initCalls
     ELSE /\ UNCHANGED dateTimeFormats
          /\ InitAdvance(ipc.n)
  /\ UNCHANGED <<sysLocale, op, arg, out, message, consulted, itemp,
                 rpc, rstr, ridx, rret, rend, rview>>

\* line 228: the append of t + "t"
InitZoneFlush ==
  /\ ipc.at = "zone2"
  /\ dateTimeFormats' = Append(dateTimeFormats, itemp[ipc.n] \o <<"t">>)
  /\ InitAdvance(ipc.n)
  /\ UNCHANGED <<sysLocale, op, arg, out, message, consulted, itemp,
                 rpc, rstr, ridx, rret, rend, rview>>

\* lines 238-248: simplified(), and the begin and end iterators of the loop
ReadBegin(r) ==
  /\ rpc[r] = "idle"
  /\ \E str \in ConcTexts :
       rstr' = [rstr EXCEPT ![r] = simplified(str)]
  /\ rpc' = [rpc EXCEPT ![r] = "loop"]
  /\ ridx' = [ridx EXCEPT ![r] = 1]
  /\ rret' = [rret EXCEPT ![r] = InvalidDateTime]
  /\ rend' = [rend EXCEPT ![r] = Len(dateTimeFormats)]
  /\ rview' = [rview EXCEPT ![r] = Observe("none")]
  /\ UNCHANGED <<sysLocale, dateTimeFormats, initCalls, op, arg, out, message,
                 consulted, ipc, itemp>>

\* lines 248-253: one iteration, or the end of the loop
ReadStep(r) ==
  /\ rpc[r] = "loop"
  /\ IF ridx[r] > rend[r]
     THEN /\ rpc' = [rpc EXCEPT ![r] = "done"]
          /\ UNCHANGED <<ridx, rret, rview>>
     ELSE IF ridx[r] <= Len(dateTimeFormats)
          THEN LET res == toDateTime(rstr[r], dateTimeFormats[ridx[r]])
               IN  /\ rret' = [rret EXCEPT ![r] = res]
                   /\ rview' = [rview EXCEPT ![r] = Observe(rview[r])]
                   /\ IF res.valid
                      THEN rpc' = [rpc EXCEPT ![r] = "done"] /\ UNCHANGED ridx
                      ELSE ridx' = [ridx EXCEPT ![r] = ridx[r] + 1] /\ UNCHANGED rpc
          ELSE /\ rview' = [rview EXCEPT ![r] = Observe(rview[r])]
               /\ rret' = [rret EXCEPT ![r] = InvalidDateTime]
               /\ \/ rpc' = [rpc EXCEPT ![r] = "crashed"] /\ UNCHANGED ridx
                  \/ ridx' = [ridx EXCEPT ![r] = ridx[r] + 1] /\ UNCHANGED rpc
  /\ UNCHANGED <<sysLocale, dateTimeFormats, initCalls, op, arg, out, message,
                 consulted, ipc, itemp, rstr, rend>>

\* line 254
ReadReturn(r) ==
  /\ rpc[r] = "done"
  /\ rpc' = [rpc EXCEPT ![r] = "idle"]
  /\ rstr' = [rstr EXCEPT ![r] = <<>>]
  /\ ridx' = [ridx EXCEPT ![r] = 0]
  /\ rret' = [rret EXCEPT ![r] = InvalidDateTime]
  /\ rend' = [rend EXCEPT ![r] = 0]
  /\ rview' = [rview EXCEPT ![r] = "none"]
  /\ UNCHANGED <<sysLocale, dateTimeFormats, initCalls, op, arg, out, message,
                 consulted, ipc, itemp>>

NextConc ==
  \/ InitClear
  \/ InitAppend
  \/ InitZoneSpaced
  \/ InitZoneFlush
  \/ \E r \in Readers : ReadBegin(r)
  \/ \E r \in Readers : ReadStep(r)
  \/ \E r \in Readers : ReadReturn(r)

InitConc == Init /\ sysLocale \in ConcLocales

SpecConc == InitConc /\ [][NextConc]_vars

(***************************************************************************)
(* Properties                                                              *)
(***************************************************************************)
\* the catalogue indexes whose pattern reads a valid instant from the text
Accepting(formats, text) ==
  {i \in 1..Len(formats) : toDateTime(simplified(text), formats[i]).valid}

Min(S) == CHOOSE i \in S : \A j \in S : i <= j

Upto(n) == [i \in 1..n |-> i]

\* C1: readDateTime returns what the lowest-index catalogue pattern that reads a
\* valid instant from the whitespace-normalized text reads; it hands the patterns
\* 1 .. that index to the locale and none after it; when no pattern reads a valid
\* instant it has tried them all and the instant it returns is invalid.
C1_FirstMatchWins ==
  op = "readDateTime" =>
    LET acc == Accepting(dateTimeFormats, arg)
    IN  IF acc # {}
        THEN /\ out = toDateTime(simplified(arg), dateTimeFormats[Min(acc)])
             /\ out.valid
             /\ consulted = Upto(Min(acc))
        ELSE /\ ~out.valid
             /\ consulted = Upto(Len(dateTimeFormats))

\* a parse where a later pattern reads a different valid instant from the text
C1_Witness ==
  /\ op = "readDateTime"
  /\ out.valid
  /\ \E j \in Accepting(dateTimeFormats, arg) :
       /\ j > Min(Accepting(dateTimeFormats, arg))
       /\ toDateTime(simplified(arg), dateTimeFormats[j]) # out

\* C2: a readDateTime call made before any initTranslateableTexts call returns an
\* invalid instant whatever the text, and the catalogue is empty after it.
C2_ParseBeforeInit ==
  (op = "readDateTime" /\ initCalls = 0) => (~out.valid /\ dateTimeFormats = <<>>)

\* a parse before initialization of a text the built catalogue would read
C2_Witness ==
  /\ op = "readDateTime"
  /\ initCalls = 0
  /\ arg \in Rendered[sysLocale]
  /\ Accepting(BuildCatalogue(<<>>, sysLocale), arg) # {}

\* C3: after initTranslateableTexts the catalogue is not empty; every entry e built
\* before the zone-suffix step that does not end in "t" has e + " t" immediately
\* followed by e + "t" somewhere after all the entries built before that step; an
\* entry that ends in "t" has neither form after them; nothing else was added.
C3_ZoneVariants ==
  initCalls > 0 =>
    LET cat == dateTimeFormats
        n == Len(BaseFormats(sysLocale))
        plain == {i \in 1..n : cat[i][Len(cat[i])] # "t"}
    IN  /\ cat # <<>>
        /\ Len(cat) = n + 2 * Cardinality(plain)
        /\ \A i \in 1..n :
             IF i \in plain
             THEN \E j \in (n + 1)..(Len(cat) - 1) :
                    /\ cat[j] = cat[i] \o <<" ", "t">>
                    /\ cat[j + 1] = cat[i] \o <<"t">>
             ELSE \A j \in (n + 1)..Len(cat) :
                    /\ cat[j] # cat[i] \o <<" ", "t">>
                    /\ cat[j] # cat[i] \o <<"t">>

\* a built catalogue with entries of both kinds
C3_Witness ==
  /\ initCalls > 0
  /\ op = "initTranslateableTexts"
  /\ \E i, j \in 1..Len(BaseFormats(sysLocale)) :
       /\ dateTimeFormats[i][Len(dateTimeFormats[i])] = "t"
       /\ dateTimeFormats[j][Len(dateTimeFormats[j])] # "t"

C10_TryOrder ==
  initCalls > 0 =>
    LET cat == dateTimeFormats
    IN  /\ Len(cat) >= 12
        /\ cat[1] = dateTimeFormat(sysLocale, "ShortFormat")
        /\ cat[2] = dateTimeFormat(sysLocale, "LongFormat")
        /\ cat[3] = dateTimeFormat(sysLocale, "NarrowFormat")
        /\ cat[4] = yearVariant(dateTimeFormat(sysLocale, "ShortFormat"))
        /\ cat[5] = yearVariant(dateTimeFormat(sysLocale, "LongFormat"))
        /\ cat[6] = yearVariant(dateTimeFormat(sysLocale, "NarrowFormat"))
        /\ cat[7] = dateTimeFormat(English, "ShortFormat")
        /\ cat[8] = dateTimeFormat(English, "LongFormat")
        /\ cat[9] = dateTimeFormat(English, "NarrowFormat")
        /\ cat[10] = yearVariant(dateTimeFormat(English, "ShortFormat"))
        /\ cat[11] = yearVariant(dateTimeFormat(English, "LongFormat"))
        /\ cat[12] = yearVariant(dateTimeFormat(English, "NarrowFormat"))
        /\ \A j \in 13..Len(cat) :
             \E i \in 1..12 : cat[j] \in {cat[i] \o <<" ", "t">>, cat[i] \o <<"t">>}

\* a catalogue built for a system locale whose patterns differ from the English ones
C10_Witness ==
  /\ initCalls > 0
  /\ op = "initTranslateableTexts"
  /\ dateTimeFormat(sysLocale, "ShortFormat") # dateTimeFormat(English, "ShortFormat")
  /\ Len(dateTimeFormats) > 12

\* the numbers written in a text, in order: its maximal runs of digits
RECURSIVE NumbersFrom(_, _, _, _)
NumbersFrom(s, i, cur, open) ==
  IF i > Len(s) THEN (IF open THEN <<cur>> ELSE <<>>)
  ELSE IF IsDigit(s[i]) THEN NumbersFrom(s, i + 1, cur * 10 + DigitVal(s[i]), TRUE)
       ELSE (IF open THEN <<cur>> ELSE <<>>) \o NumbersFrom(s, i + 1, 0, FALSE)

Numbers(s) == NumbersFrom(s, 1, 0, FALSE)

\* the unit letters written in a text, in order
UnitsOf(s) == SelectSeq(s, LAMBDA c : c \in {"d", "h", "m"})

\* the hours a rendered duration stands for without its minutes: its hour
\* component plus 24 times its day component, where it has one
RenderedHours(name, text) ==
  LET f == Numbers(text)
      u == UnitsOf(text)
      ix == {i \in 1..Len(f) : i <= Len(u)}
      Val(i) == IF u[i] = "d" THEN 24 * f[i] ELSE IF u[i] = "h" THEN f[i] ELSE 0
  IN  CASE name \in {"formatMinutesHours", "formatMinutesHoursLong"} -> f[1]
        [] name = "formatMinutesHoursDays" -> 24 * f[1] + f[2]
        [] name = "formatMinutesHoursDaysLong" ->
             (IF 1 \in ix THEN Val(1) ELSE 0) + (IF 2 \in ix THEN Val(2) ELSE 0)

\* the minute field of a rendered duration: the last number in it
RenderedMinutes(text) == Numbers(text)[Len(Numbers(text))]

\* the fractional part of the hours value, times 60, rounds to 60
RoundsToSixty(time) == 2 * (time % TicksPerHour) + TicksPerMinute >= 2 * TicksPerMinute * 60

\* C4: for every hours value >= 0 and each of the four duration formatters the
\* rendered minute field is between 0 and 59, and when the fractional part times
\* 60 rounds to 60 the minute field is 0 and the hours rendered (days included)
\* are one more than the truncated hours value.
C4_MinuteCarry ==
  op \in DurationFormatters =>
    /\ RenderedMinutes(out) \in 0..59
    /\ RoundsToSixty(arg) =>
         /\ RenderedMinutes(out) = 0
         /\ RenderedHours(op, out) = (arg \div TicksPerHour) + 1

\* the components the long days form has to show, highest first
C9_Components(time) ==
  LET days == (time \div TicksPerHour) \div 24
      hours == (time \div TicksPerHour) - 24 * days
      minutes == (2 * (time % TicksPerHour) + TicksPerMinute) \div (2 * TicksPerMinute)
  IN  (IF days > 0 THEN <<[n |-> days, unit |-> "d"]>> ELSE <<>>)
        \o (IF hours > 0 THEN <<[n |-> hours, unit |-> "h"]>> ELSE <<>>)
        \o <<[n |-> minutes, unit |-> "m"]>>

\* the first component unpadded, every later one as two zero-padded digits
RECURSIVE C9_Render(_, _)
C9_Render(comps, i) ==
  IF i > Len(comps) THEN <<>>
  ELSE (IF i = 1 THEN Digits(comps[i].n, 1) ELSE <<" ">> \o Digits(comps[i].n, 2))
         \o <<" ", comps[i].unit>> \o C9_Render(comps, i + 1)

\* 15 minutes past the whole hour h
QuarterPast(h) == h * TicksPerHour + 15 * TicksPerMinute

\* C9: formatMinutesHoursDaysLong shows the day component only when days > 0, the
\* hour component only when hours > 0 and the minute component always, the first
\* of them unpadded and every later one as two zero-padded digits; 25.25 gives
\* "1 d 01 h 15 m", 1.25 gives "1 h 15 m" and 0.25 gives "15 m".
C9_LongDays ==
  op = "formatMinutesHoursDaysLong" =>
    /\ out = C9_Render(C9_Components(arg), 1)
    /\ arg = QuarterPast(25) =>
         out = <<"1", " ", "d", " ", "0", "1", " ", "h", " ", "1", "5", " ", "m">>
    /\ arg = QuarterPast(1) => out = <<"1", " ", "h", " ", "1", "5", " ", "m">>
    /\ arg = QuarterPast(0) => out = <<"1", "5", " ", "m">>

\* 25.25 hours rendered in the long days form
C9_Witness ==
  /\ op = "formatMinutesHoursDaysLong"
  /\ arg = QuarterPast(25)
  /\ out = <<"1", " ", "d", " ", "0", "1", " ", "h", " ", "1", "5", " ", "m">>

RECURSIVE FieldsFrom(_, _)
FieldsFrom(fmt, i) ==
  IF i > Len(fmt) THEN {}
  ELSE LET tok == TokenAt(fmt, i)
       IN  (IF tok.field = "year" THEN {<<"year", tok.width>>}
            ELSE IF tok.field \in {"literal", "zone"} THEN {}
            ELSE {<<tok.field, 0>>}) \cup FieldsFrom(fmt, i + tok.len)

\* the pattern writes every field of an instant: four-digit year, month, day,
\* hour, minute and second
CarriesAllFields(fmt) ==
  {<<"year", 4>>, <<"month", 0>>, <<"day", 0>>, <<"hour", 0>>, <<"minute", 0>>, <<"second", 0>>}
    \subseteq FieldsFrom(fmt, 1)

C7_SafePublication ==
  \A r \in Readers : rview[r] # "torn" /\ rpc[r] # "crashed"

=============================================================================
